---- MODULE Spec2Model ----
(***************************************************************************)
(* A state-machine model of SCNPhysicsBody (src/js/SceneKit/               *)
(* SCNPhysicsBody.js) together with the stepping driver and the node       *)
(* synchronisation that the design document describes around it.           *)
(*                                                                         *)
(* The class declares two methods called init.  In a JavaScript class body *)
(* the later definition of a name replaces the earlier one, so the method  *)
(* reachable as body.init is init(type, shape), whose body is empty; the   *)
(* field-declaring init() of lines 23-177 is shadowed and cannot be        *)
(* called.  A body therefore starts with none of its fields assigned, and  *)
(* every field reads as undefined until a property write assigns it.       *)
(***************************************************************************)
EXTENDS Integers, Sequences, FiniteSets, TLC

(***************************************************************************)
(* Bounds of the model.                                                    *)
(***************************************************************************)
\* Calls of apply*/clearAllForces recorded between two step boundaries.
MaxCalls == 2
\* Largest absolute coordinate of a simulated position.
MaxPos == 2
\* Largest absolute component of a velocity or an accumulator.
MaxSpeed == 4

(***************************************************************************)
(* JavaScript values.  Every value carries its type tag, so that undefined,*)
(* null, numbers, booleans, vectors and enumeration members stay distinct. *)
(***************************************************************************)
Undefined == [t |-> "undefined"]
Null == [t |-> "null"]
Num(n) == [t |-> "number", v |-> n]
Bool(b) == [t |-> "boolean", v |-> b]
Vec(x) == [t |-> "vector", v |-> x]
Shape(s) == [t |-> "shape", v |-> s]
BodyType(s) == [t |-> "SCNPhysicsBodyType", v |-> s]

IsNum(x) == x.t = "number"
IsVec(x) == x.t = "vector"

\* SCNPhysicsBodyType (imported at line 4; the enumeration itself is not in src).
TypeStatic == BodyType("static")
TypeDynamic == BodyType("dynamic")
TypeKinematic == BodyType("kinematic")
Types == {TypeStatic, TypeDynamic, TypeKinematic}

\* SCNVector3 / SCNVector4 component arithmetic on tuples.
Zero3 == <<0, 0, 0>>
Zero4 == <<0, 0, 0, 0>>
VAdd(a, b) == [k \in DOMAIN a |-> a[k] + b[k]]
VScale(a, c) == [k \in DOMAIN a |-> a[k] * c]
VDiv(a, c) == [k \in DOMAIN a |-> a[k] \div c]
\* The value of an arithmetic expression that is NaN or infinite.
NotFinite == [t |-> "non-finite"]
\* v + f * dt / m as JavaScript computes it: a zero divisor gives no number.
Integrate(v, f, dt, m) ==
  IF m = 0 THEN NotFinite ELSE Vec(VAdd(v, VDiv(VScale(f, dt), m)))
VWithin(a, bound) == \A k \in DOMAIN a : a[k] <= bound /\ a[k] >= -bound

\* ToInt32 of the operand of JavaScript's & : undefined and null give 0.
ToInt32(x) == IF IsNum(x) THEN x.v ELSE 0
RECURSIVE BitAnd(_, _)
BitAnd(a, b) ==
  IF a = 0 \/ b = 0 THEN 0
  ELSE (a % 2) * (b % 2) + 2 * BitAnd(a \div 2, b \div 2)
JsAnd(x, y) == BitAnd(ToInt32(x), ToInt32(y))

(***************************************************************************)
(* State.                                                                  *)
(***************************************************************************)
BodyIds == {1, 2}

VARIABLES
  body,      \* body[i]: the fields of the i-th SCNPhysicsBody object
  sim,       \* sim[i]: the simulation's internal state of body i
  node,      \* node[i]: world position of the node owning body i
  contacts,  \* pairs of bodies that got a collision response in the last step
  calls,     \* summary of the apply*/clearAllForces calls of the current step
  last,      \* the operation performed last, with its arguments
  ret        \* what the last operation returned

vars == <<body, sim, node, contacts, calls, last, ret>>

\* The fields the shadowed init() (lines 23-177) would assign.  No reachable
\* code runs it; it records the defaults the class documents.
init0 ==
  [physicsShape |-> Null, type |-> Null, velocityFactor |-> Null,
   mass |-> Num(0), categoryBitMask |-> Num(0), contactTestBitMask |-> Num(0),
   collisionBitMask |-> Num(0), velocity |-> Null, angularVelocity |-> Null,
   allowsResting |-> Bool(FALSE), _isResting |-> Bool(FALSE)]

\* new SCNPhysicsBody(): an object none of whose fields has been assigned.
NewBody == [f \in DOMAIN init0 |-> Undefined]

\* The simulation's own record of a body: its simulated position, the
\* accumulators of the current step and the count of consecutive quiet steps.
NewSim == [position |-> Zero3, netForce |-> Zero3, netTorque |-> Zero4, quiet |-> 0]

\* One body with its simulation record, as the methods see it.
Obj(b, s) == [body |-> b, sim |-> s]

\* The calls made on body 1 since the last step boundary: n counts them all,
\* applied the apply* calls among them and impulses those with impulse = true;
\* force is the sum of the directions passed to applyForceAsImpulse with
\* impulse = false since the last clearAllForces, forces counts those calls,
\* others counts the non-impulse applyForceAtAsImpulse and
\* applyTorqueAsImpulse calls since then; cancelled says that a
\* clearAllForces followed at least one non-impulse call.
NoCalls ==
  [n |-> 0, applied |-> 0, impulses |-> 0, force |-> Zero3, forces |-> 0,
   others |-> 0, cancelled |-> FALSE]

NoCall == [op |-> "new", id |-> 0, arg |-> Undefined, impulse |-> FALSE,
           dt |-> 0, calls |-> NoCalls]
Call(op, i, arg, impulse) ==
  [op |-> op, id |-> i, arg |-> arg, impulse |-> impulse, dt |-> 0, calls |-> NoCalls]

Init ==
  /\ body = [i \in BodyIds |-> NewBody]
  /\ sim = [i \in BodyIds |-> NewSim]
  /\ node = [i \in BodyIds |-> Zero3]
  /\ contacts = {}
  /\ calls = NoCalls
  /\ last = NoCall
  /\ ret = Undefined

(***************************************************************************)
(* The methods of SCNPhysicsBody, as functions of the object they are      *)
(* called on.  An Obj pairs the body's fields with the simulation record   *)
(* the method could reach; each method returns the Obj it leaves behind.   *)
(***************************************************************************)

\* init(type, shape), lines 190-191: the body is empty.
init(o, type, shape) == o

\* static static(), static dynamic(), static kinematic(): each returns null.
static == Null
dynamic == Null
kinematic == Null

\* A force application that does what the documentation of lines 228-235
\* describes but never looks at the body's type.
ApplyUnguarded(o, direction, impulse) ==
  LET m == IF IsNum(o.body.mass) /\ o.body.mass.v > 0 THEN o.body.mass.v ELSE 1 IN
  IF impulse
  THEN IF IsVec(o.body.velocity)
       THEN [o EXCEPT !.body.velocity = Vec(VAdd(@.v, VDiv(direction, m)))]
       ELSE o
  ELSE [o EXCEPT !.sim.netForce = VAdd(@, direction)]

\* A force application that divides an impulse by the mass as it is stored.
ApplyUnclamped(o, direction, impulse) ==
  LET m == IF IsNum(o.body.mass) THEN o.body.mass.v ELSE 0 IN
  IF impulse
  THEN IF IsVec(o.body.velocity)
       THEN [o EXCEPT !.body.velocity = Integrate(@.v, direction, 1, m)]
       ELSE o
  ELSE [o EXCEPT !.sim.netForce = VAdd(@, direction)]

\* applyForceAsImpulse(direction, impulse), lines 237-238: the body is empty.
applyForceAsImpulse(o, direction, impulse) == o

\* applyForceAtAsImpulse(direction, position, impulse), lines 250-251: empty.
applyForceAtAsImpulse(o, direction, position, impulse) == o

\* applyTorqueAsImpulse(torque, impulse), lines 262-263: empty.
applyTorqueAsImpulse(o, torque, impulse) == o

\* A clearAllForces that stops the body as well as emptying the accumulators.
ClearAllMotion(o) ==
  [body |-> [o.body EXCEPT
               !.velocity = IF IsVec(@) THEN Vec(Zero3) ELSE @,
               !.angularVelocity = IF IsVec(@) THEN Vec(Zero4) ELSE @],
   sim |-> [o.sim EXCEPT !.netForce = Zero3, !.netTorque = Zero4]]

\* clearAllForces(), lines 272-273: empty.
clearAllForces(o) == o

\* get isResting(), lines 282-284.
isResting(b) == b._isResting

\* resetTransform(), lines 295-296: empty.  nodePosition is the world
\* position of the owning node, which the method would have to read.
resetTransform(o, nodePosition) == o

(***************************************************************************)
(* The stepping driver and the collision filter.  Neither is in the class; *)
(* both follow the design document (sections 3, 4.2-4.5 and 5).            *)
(***************************************************************************)

\* Consecutive quiet steps after which a body that allows resting rests.
RestDebounce == 2
\* The least mass the integration divides by (the unit of mass here).
MinMass == 1

EffectiveMass(mass) == IF IsNum(mass) /\ mass.v > MinMass THEN mass.v ELSE MinMass

\* A filter that tests one direction only.
EligibleOneWay(a, b) == JsAnd(a.categoryBitMask, b.collisionBitMask) # 0

\* Section 4.3: eligibility of a pair for a physical collision response.
Eligible(a, b) ==
  /\ JsAnd(a.categoryBitMask, b.collisionBitMask) # 0
  /\ JsAnd(b.categoryBitMask, a.collisionBitMask) # 0

\* Geometric overlap of two bodies at the given simulated positions.
Overlap(p, q) == p = q

\* Section 3: the accumulators a body is left with at the end of a step.
EndAccumulators(b, s) == [netForce |-> Zero3, netTorque |-> Zero4]

\* A write-back that copies the simulated position whatever the factor is.
WriteBackUnscaled(n, p, f) == p

\* Section 4.5: the node's position after the step writes the simulated
\* position p back to a node at n, scaled component-wise by the factor f; a
\* factor that is not a vector scales nothing.
WriteBack(n, p, f) ==
  IF IsVec(f) THEN [k \in DOMAIN n |-> n[k] + f.v[k] * (p[k] - n[k])] ELSE p

\* One body's step of duration dt, computed from its state at step start.
StepBody(b, s, n, dt) ==
  LET integrates == /\ b.type = TypeDynamic
                    /\ IsVec(b.velocity)
                    /\ b._isResting # Bool(TRUE)
      m == EffectiveMass(b.mass)
      v1 == IF integrates
            THEN Integrate(b.velocity.v, s.netForce, dt, m)
            ELSE b.velocity
      w1 == IF integrates /\ IsVec(b.angularVelocity)
            THEN Integrate(b.angularVelocity.v, s.netTorque, dt, m)
            ELSE b.angularVelocity
      p1 == IF integrates /\ IsVec(v1) THEN VAdd(s.position, VScale(v1.v, dt))
            ELSE IF b.type = TypeKinematic THEN n
            ELSE s.position
      still == /\ IsVec(v1) /\ v1.v = Zero3
               /\ IsVec(w1) /\ w1.v = Zero4
      q1 == IF still
            THEN (IF s.quiet < RestDebounce THEN s.quiet + 1 ELSE RestDebounce)
            ELSE 0
      r1 == IF integrates /\ b.allowsResting = Bool(TRUE) /\ q1 >= RestDebounce
            THEN Bool(TRUE)
            ELSE b._isResting
  IN [body |-> [b EXCEPT !.velocity = v1, !.angularVelocity = w1, !._isResting = r1],
      sim |-> [position |-> p1, netForce |-> EndAccumulators(b, s).netForce,
               netTorque |-> EndAccumulators(b, s).netTorque, quiet |-> q1],
      node |-> IF integrates THEN WriteBack(n, p1, b.velocityFactor) ELSE n]

\* Section 4.4: a body is struck when a moving body it responds to overlaps it.
Moving(o) == IsVec(o.body.velocity) /\ o.body.velocity.v # Zero3
Struck(i, all) ==
  \E j \in BodyIds \ {i} :
    /\ Moving(all[j])
    /\ Eligible(all[i].body, all[j].body)
    /\ Overlap(all[i].sim.position, all[j].sim.position)

\* Body i's state after a step of duration dt, read from the states `all`: a
\* resting body that is struck is active again before it is stepped.
Advance(i, all, dt) ==
  LET o == all[i]
      woken == o.body._isResting = Bool(TRUE) /\ Struck(i, all)
  IN StepBody(IF woken THEN [o.body EXCEPT !._isResting = Bool(FALSE)] ELSE o.body,
              IF woken THEN [o.sim EXCEPT !.quiet = 0] ELSE o.sim,
              o.node, dt)

\* A driver that updates the bodies in place: each reads what the ones before
\* it in the iteration have already written.
ViewInPlace(snap, cur) == cur

\* Section 5: the states a body's update reads are the snapshot of all bodies
\* taken at step start, not the partly updated current states.
View(snap, cur) == snap

\* The states of all bodies after they were advanced one by one in the order ord.
RECURSIVE Sweep(_, _, _, _)
Sweep(ord, snap, cur, dt) ==
  IF ord = <<>> THEN cur
  ELSE Sweep(Tail(ord), snap,
             [cur EXCEPT ![Head(ord)] = Advance(Head(ord), View(snap, cur), dt)],
             dt)

\* The orders in which a driver may iterate over the bodies.
Orders == {<<1, 2>>, <<2, 1>>}

\* The model keeps positions, velocities and accumulators inside its bounds.
InBounds(o) ==
  /\ VWithin(o.sim.position, MaxPos)
  /\ VWithin(o.sim.netForce, MaxSpeed)
  /\ VWithin(o.sim.netTorque, MaxSpeed)
  /\ IsVec(o.body.velocity) => VWithin(o.body.velocity.v, MaxSpeed)
  /\ IsVec(o.body.angularVelocity) => VWithin(o.body.angularVelocity.v, MaxSpeed)

(***************************************************************************)
(* Inputs.                                                                 *)
(***************************************************************************)
Directions == {<<2, 0, 0>>, <<0, 4, 0>>}
Torques == {<<0, 0, 1, 2>>}
Points == {<<0, 1, 0>>}
Velocities == {Zero3, <<1, 0, 0>>}
AngularVelocities == {Zero4}
Masses == {1, 2}
One3 == <<1, 1, 1>>
Factors == {One3, <<0, 1, 1>>, <<1, 0, 1>>}
DegenerateMasses == {-1, 0}
Masks == {1, 2, 3}
Shapes == {Shape("box"), Shape("sphere")}
Positions == {Zero3, <<1, 0, 0>>}
Durations == {1, 2}

\* The values a property write may store in each field.
FieldValues(f) ==
  CASE f = "type" -> Types
    [] f = "mass" -> {Num(m) : m \in Masses}
    [] f = "velocity" -> {Vec(v) : v \in Velocities}
    [] f = "velocityFactor" -> {Vec(k) : k \in Factors}
    [] f = "angularVelocity" -> {Vec(w) : w \in AngularVelocities}
    [] f = "allowsResting" -> {Bool(TRUE), Bool(FALSE)}
    [] f = "categoryBitMask" -> {Num(k) : k \in Masks}
    [] f = "collisionBitMask" -> {Num(k) : k \in Masks}
    [] f = "physicsShape" -> Shapes \cup {Null}
    [] OTHER -> {}

(***************************************************************************)
(* Actions.                                                                *)
(***************************************************************************)
Put(i, o) ==
  /\ InBounds(o)
  /\ body' = [body EXCEPT ![i] = o.body]
  /\ sim' = [sim EXCEPT ![i] = o.sim]

\* body.f = v: a write of one of the public fields.
SetField(i, f, v) ==
  /\ body' = [body EXCEPT ![i][f] = v]
  /\ last' = Call("set", i, Undefined, FALSE)
  /\ ret' = Undefined
  /\ UNCHANGED <<sim, node, contacts, calls>>

\* body.init(type, shape)
InitTypeShape(i, type, shape) ==
  /\ Put(i, init(Obj(body[i], sim[i]), type, shape))
  /\ last' = Call("init", i, <<type, shape>>, FALSE)
  /\ ret' = Undefined
  /\ UNCHANGED <<node, contacts, calls>>

\* SCNPhysicsBody.static(shape), .dynamic(shape), .kinematic(shape)
Factory(kind, shape) ==
  /\ ret' = CASE kind = "static" -> static
              [] kind = "dynamic" -> dynamic
              [] kind = "kinematic" -> kinematic
  /\ last' = Call(kind, 0, shape, FALSE)
  /\ UNCHANGED <<body, sim, node, contacts, calls>>

\* The summary of the step's calls after one more apply* call.
Noted(direction, impulse, centred) ==
  IF impulse THEN [calls EXCEPT !.n = @ + 1, !.applied = @ + 1, !.impulses = @ + 1]
  ELSE IF centred
       THEN [calls EXCEPT !.n = @ + 1, !.applied = @ + 1, !.forces = @ + 1,
                          !.force = VAdd(@, direction)]
       ELSE [calls EXCEPT !.n = @ + 1, !.applied = @ + 1, !.others = @ + 1]

ApplyForce(i, direction, impulse) ==
  /\ calls.n < MaxCalls
  /\ Put(i, applyForceAsImpulse(Obj(body[i], sim[i]), direction, impulse))
  /\ last' = Call("applyForceAsImpulse", i, Vec(direction), impulse)
  /\ calls' = Noted(direction, impulse, TRUE)
  /\ ret' = Undefined
  /\ UNCHANGED <<node, contacts>>

ApplyForceAt(i, direction, position, impulse) ==
  /\ calls.n < MaxCalls
  /\ Put(i, applyForceAtAsImpulse(Obj(body[i], sim[i]), direction, position, impulse))
  /\ last' = Call("applyForceAtAsImpulse", i, Vec(direction), impulse)
  /\ calls' = Noted(direction, impulse, FALSE)
  /\ ret' = Undefined
  /\ UNCHANGED <<node, contacts>>

ApplyTorque(i, torque, impulse) ==
  /\ calls.n < MaxCalls
  /\ Put(i, applyTorqueAsImpulse(Obj(body[i], sim[i]), torque, impulse))
  /\ last' = Call("applyTorqueAsImpulse", i, Vec(torque), impulse)
  /\ calls' = Noted(torque, impulse, FALSE)
  /\ ret' = Undefined
  /\ UNCHANGED <<node, contacts>>

ClearAllForces(i) ==
  /\ calls.n < MaxCalls
  /\ Put(i, clearAllForces(Obj(body[i], sim[i])))
  /\ last' = Call("clearAllForces", i, Undefined, FALSE)
  /\ calls' = [calls EXCEPT !.n = @ + 1, !.force = Zero3, !.forces = 0, !.others = 0,
                             !.cancelled = @ \/ calls.forces + calls.others > 0]
  /\ ret' = Undefined
  /\ UNCHANGED <<node, contacts>>

\* Reading body.isResting.
ReadIsResting(i) ==
  /\ ret' = isResting(body[i])
  /\ last' = Call("isResting", i, Undefined, FALSE)
  /\ UNCHANGED <<body, sim, node, contacts, calls>>

\* External code moves the node that owns body i.
MoveNode(i, p) ==
  /\ node' = [node EXCEPT ![i] = p]
  /\ last' = Call("moveNode", i, Vec(p), FALSE)
  /\ ret' = Undefined
  /\ UNCHANGED <<body, sim, contacts, calls>>

ResetTransform(i) ==
  /\ Put(i, resetTransform(Obj(body[i], sim[i]), node[i]))
  /\ last' = Call("resetTransform", i, Undefined, FALSE)
  /\ ret' = Undefined
  /\ UNCHANGED <<node, contacts, calls>>

\* The states of all bodies as a step finds them.
Snapshot == [i \in BodyIds |-> [body |-> body[i], sim |-> sim[i], node |-> node[i]]]

\* step(dt): every body advances from the snapshot taken at step start, in
\* some order, and the new states are applied together.
Step(dt) ==
  \E ord \in Orders :
  LET r == Sweep(ord, Snapshot, Snapshot, dt) IN
  /\ \A i \in BodyIds : InBounds(r[i])
  /\ body' = [i \in BodyIds |-> r[i].body]
  /\ sim' = [i \in BodyIds |-> r[i].sim]
  /\ node' = [i \in BodyIds |-> r[i].node]
  /\ contacts' = {p \in BodyIds \X BodyIds :
                    /\ p[1] < p[2]
                    /\ Eligible(body[p[1]], body[p[2]])
                    /\ Overlap(r[p[1]].sim.position, r[p[2]].sim.position)}
  /\ last' = [op |-> "step", id |-> 0, arg |-> Undefined, impulse |-> FALSE,
              dt |-> dt, calls |-> calls]
  /\ calls' = NoCalls
  /\ ret' = Undefined

(***************************************************************************)
(* Specifications.                                                         *)
(***************************************************************************)
ForceFields == {"type", "mass", "velocity", "angularVelocity"}

\* One body under forces, impulses, torques and steps.
Next ==
  \/ \E f \in ForceFields : \E v \in FieldValues(f) : SetField(1, f, v)
  \/ \E d \in Directions, imp \in BOOLEAN : ApplyForce(1, d, imp)
  \/ \E d \in Directions, p \in Points, imp \in BOOLEAN : ApplyForceAt(1, d, p, imp)
  \/ \E t \in Torques, imp \in BOOLEAN : ApplyTorque(1, t, imp)
  \/ ClearAllForces(1)
  \/ \E dt \in Durations : Step(dt)

Spec == Init /\ [][Next]_vars

\* One body that may come to rest.
RestFields == {"type", "velocity", "angularVelocity", "allowsResting"}
NextRest ==
  \/ \E f \in RestFields : \E v \in FieldValues(f) : SetField(1, f, v)
  \/ \E d \in Directions, imp \in BOOLEAN : ApplyForce(1, d, imp)
  \/ ReadIsResting(1)
  \/ \E dt \in Durations : Step(dt)

SpecRest == Init /\ [][NextRest]_vars

\* One body at rest that is pushed, twisted or moved with its node.
NextWake ==
  \/ \E f \in RestFields : \E v \in FieldValues(f) : SetField(1, f, v)
  \/ \E d \in Directions, imp \in BOOLEAN : ApplyForce(1, d, imp)
  \/ \E t \in Torques, imp \in BOOLEAN : ApplyTorque(1, t, imp)
  \/ \E p \in Positions : MoveNode(1, p)
  \/ ResetTransform(1)
  \/ \E dt \in Durations : Step(dt)

SpecWake == Init /\ [][NextWake]_vars

\* One body whose mass is also given values that are zero or negative.
MassFields == {"type", "velocity"}
NextMass ==
  \/ \E f \in MassFields : \E v \in FieldValues(f) : SetField(1, f, v)
  \/ \E m \in DegenerateMasses \cup Masses : SetField(1, "mass", Num(m))
  \/ \E d \in Directions, imp \in BOOLEAN : ApplyForce(1, d, imp)
  \/ \E t \in Torques, imp \in BOOLEAN : ApplyTorque(1, t, imp)
  \/ \E dt \in Durations : Step(dt)

SpecMass == Init /\ [][NextMass]_vars

\* One body whose movement is written back to its node through a factor.
FactorFields == {"type", "velocity", "velocityFactor"}
NextFactor ==
  \/ \E f \in FactorFields : \E v \in FieldValues(f) : SetField(1, f, v)
  \/ \E p \in Positions : MoveNode(1, p)
  \/ \E dt \in Durations : Step(dt)

SpecFactor == Init /\ [][NextFactor]_vars

\* Two Dynamic bodies: body 1 may come to rest, body 2 moves and may strike it.
OrderMasks == {1, 2}
NextOrder ==
  \/ \E i \in BodyIds : SetField(i, "type", TypeDynamic)
  \/ \E i \in BodyIds : SetField(i, "categoryBitMask", Num(1))
  \/ \E i \in BodyIds, k \in OrderMasks : SetField(i, "collisionBitMask", Num(k))
  \/ \E v \in Velocities : SetField(2, "velocity", Vec(v))
  \/ SetField(1, "velocity", Vec(Zero3))
  \/ SetField(1, "angularVelocity", Vec(Zero4))
  \/ SetField(1, "allowsResting", Bool(TRUE))
  \/ \E dt \in Durations : Step(dt)

SpecOrder == Init /\ [][NextOrder]_vars

\* One body whose node is moved by external code.
SyncFields == {"type", "velocity"}
NextSync ==
  \/ \E f \in SyncFields : \E v \in FieldValues(f) : SetField(1, f, v)
  \/ \E p \in Positions : MoveNode(1, p)
  \/ ResetTransform(1)
  \/ \E dt \in Durations : Step(dt)

SpecSync == Init /\ [][NextSync]_vars

\* Construction of bodies.
CreateFields == {"type", "physicsShape", "mass"}
NextCreate ==
  \/ \E k \in {"static", "dynamic", "kinematic"} :
       \E sh \in Shapes \cup {Undefined} : Factory(k, sh)
  \/ \E ty \in Types : \E sh \in Shapes \cup {Null} : InitTypeShape(1, ty, sh)
  \/ \E f \in CreateFields : \E v \in FieldValues(f) : SetField(1, f, v)

SpecCreate == Init /\ [][NextCreate]_vars

\* Two bodies and the collision filter.
PairFields == {"categoryBitMask", "collisionBitMask"}
NextPair ==
  \/ \E i \in BodyIds : \E f \in PairFields : \E v \in FieldValues(f) : SetField(i, f, v)
  \/ \E v \in FieldValues("type") : SetField(1, "type", v)
  \/ \E p \in Positions : MoveNode(1, p)
  \/ \E dt \in Durations : Step(dt)

SpecPair == Init /\ [][NextPair]_vars

(***************************************************************************)
(* Claims about one body under forces (specification Spec).                *)
(***************************************************************************)
ApplyOps == {"applyForceAsImpulse", "applyForceAtAsImpulse", "applyTorqueAsImpulse"}
Dynamic1 ==
  /\ body[1].type = TypeDynamic
  /\ IsVec(body[1].velocity)
  /\ IsNum(body[1].mass) /\ body[1].mass.v > 0

\* C1: a Static body's velocity and angularVelocity are the zero vectors in
\* every reachable state, whatever apply* calls and steps came before.
C1_StaticNeverMoves ==
  (body[1].type = TypeStatic /\ last.op \in ApplyOps \cup {"step"}) =>
    /\ body[1].velocity = Vec(Zero3)
    /\ body[1].angularVelocity = Vec(Zero4)

\* C2: applyForceAsImpulse(I, true) on a Dynamic body of mass m > 0 changes
\* velocity at the call by exactly I/m (stated as m * v' = m * v + I).
C2_ImpulseChangesVelocity ==
  [][(last'.op = "applyForceAsImpulse" /\ last'.impulse /\ Dynamic1) =>
       /\ IsVec(body'[1].velocity)
       /\ VScale(body'[1].velocity.v, body[1].mass.v)
            = VAdd(VScale(body[1].velocity.v, body[1].mass.v), last'.arg.v)]_vars

\* C3: non-impulse forces applied to a Dynamic body of mass m within one step,
\* with no clearAllForces after them, leave velocity alone at the call and
\* change it at the step of duration dt by (F1 + ... + Fn)/m * dt
\* (stated as m * v' = m * v + (F1 + ... + Fn) * dt).
C3_ForcesAccumulate ==
  [][/\ (last'.op = "applyForceAsImpulse" /\ ~last'.impulse /\ Dynamic1) =>
          body'[1].velocity = body[1].velocity
     /\ (last'.op = "step" /\ calls.forces >= 1 /\ calls.others = 0 /\ Dynamic1) =>
          /\ IsVec(body'[1].velocity)
          /\ VScale(body'[1].velocity.v, body[1].mass.v)
               = VAdd(VScale(body[1].velocity.v, body[1].mass.v),
                      VScale(calls.force, last'.dt))]_vars

\* C4: when clearAllForces() followed the non-impulse calls of a step and no
\* non-impulse call came after it, the step changes neither velocity nor
\* angularVelocity: the body ends the step as if those calls were never made.
C4_ClearCancels ==
  [][(/\ last'.op = "step"
      /\ calls.cancelled /\ calls.forces = 0 /\ calls.others = 0
      /\ body[1].type = TypeDynamic) =>
       /\ body'[1].velocity = body[1].velocity
       /\ body'[1].angularVelocity = body[1].angularVelocity]_vars

\* A step has just ended in which clearAllForces() cancelled non-impulse calls
\* made on a moving Dynamic body.
C4_Witness ==
  /\ last.op = "step"
  /\ last.calls.cancelled /\ last.calls.forces = 0 /\ last.calls.others = 0
  /\ Dynamic1
  /\ body[1].velocity.v # Zero3
  /\ IsVec(body[1].angularVelocity)

\* C10: on a Kinematic body the three apply* methods change neither the
\* body's fields nor its pending accumulators, and a step leaves its velocity
\* and angularVelocity alone and places it where its node is.
C10_KinematicIgnoresForces ==
  [][/\ (last'.op \in ApplyOps /\ body[1].type = TypeKinematic) =>
          (body'[1] = body[1] /\ sim'[1] = sim[1])
     /\ (last'.op = "step" /\ body[1].type = TypeKinematic) =>
          /\ body'[1].velocity = body[1].velocity
          /\ body'[1].angularVelocity = body[1].angularVelocity
          /\ sim'[1].position = node[1]
          /\ node'[1] = node[1]]_vars

\* A step has just ended in which forces, impulses or torques were applied to
\* a Kinematic body that has a velocity.
C10_Witness ==
  /\ last.op = "step"
  /\ last.calls.applied >= 1
  /\ body[1].type = TypeKinematic
  /\ IsVec(body[1].velocity) /\ body[1].velocity.v # Zero3

(***************************************************************************)
(* Claims about the collision filter (specification SpecPair).             *)
(***************************************************************************)

\* C5: a pair of bodies gets a collision response in a step only if
\* (A.categoryBitMask & B.collisionBitMask) != 0 and
\* (B.categoryBitMask & A.collisionBitMask) != 0.
C5_ResponseOnlyIfBothMasks ==
  last.op = "step" =>
    \A p \in contacts :
      /\ BitAnd(ToInt32(body[p[1]].categoryBitMask),
                ToInt32(body[p[2]].collisionBitMask)) # 0
      /\ BitAnd(ToInt32(body[p[2]].categoryBitMask),
                ToInt32(body[p[1]].collisionBitMask)) # 0

\* A step has just ended in which two bodies overlapped, one direction of the
\* mask test passed and the other did not, and no response was produced.
C5_Witness ==
  /\ last.op = "step"
  /\ Overlap(sim[1].position, sim[2].position)
  /\ JsAnd(body[1].categoryBitMask, body[2].collisionBitMask) # 0
  /\ JsAnd(body[2].categoryBitMask, body[1].collisionBitMask) = 0
  /\ contacts = {}

\* A step has just ended in which an overlapping pair got a response, and one
\* in which an eligible pair did not overlap.
C5_ResponseReached == last.op = "step" /\ contacts # {}
C5_ApartReached ==
  /\ last.op = "step"
  /\ Eligible(body[1], body[2])
  /\ ~Overlap(sim[1].position, sim[2].position)

(***************************************************************************)
(* Claims about rest (specification SpecRest).                             *)
(***************************************************************************)

\* C6: in every reachable state, a body whose allowsResting is false does
\* not have isResting equal to true.
C6_NoRestUnlessAllowed ==
  body[1].allowsResting = Bool(FALSE) => isResting(body[1]) # Bool(TRUE)

(***************************************************************************)
(* Claims about synchronisation with the node (specification SpecSync).    *)
(***************************************************************************)

\* C7: right after resetTransform() the simulated position equals the owning
\* node's world position, and the step that follows integrates from there.
C7_ResetMatchesNode ==
  [][/\ last'.op = "resetTransform" => sim'[1].position = node'[1]
     /\ (/\ last.op = "resetTransform" /\ last'.op = "step"
         /\ body[1].type = TypeDynamic /\ IsVec(body[1].velocity)) =>
          sim'[1].position = VAdd(node[1], VScale(body'[1].velocity.v, last'.dt))]_vars

(***************************************************************************)
(* Claims about construction (specification SpecCreate).                   *)
(***************************************************************************)

\* C8: static(), dynamic() and kinematic() return a body, never null, of type
\* Static, Dynamic and Kinematic; dynamic(shape) returns one whose
\* physicsShape is the shape passed in.
C8_FactoriesReturnBodies ==
  /\ last.op = "static" => (ret # Null /\ ret.type = TypeStatic)
  /\ last.op = "kinematic" => (ret # Null /\ ret.type = TypeKinematic)
  /\ last.op = "dynamic" =>
       /\ ret # Null
       /\ ret.type = TypeDynamic
       /\ last.arg # Undefined => ret.physicsShape = last.arg

\* C9: after init(type, shape) the body's type is the type argument, its
\* physicsShape the shape argument (null when absent), and the other fields
\* hold the defaults that init() documents.
C9_InitSetsTypeAndShape ==
  last.op = "init" =>
    body[last.id] = [init0 EXCEPT !.type = last.arg[1], !.physicsShape = last.arg[2]]

\* C11: in every reachable state, isResting is true only if allowsResting is
\* true, velocity and angularVelocity are zero, and no force, impulse or
\* torque was applied to the body during the current step.
C11_RestingOnlyIfQuiet ==
  isResting(body[1]) = Bool(TRUE) =>
    /\ body[1].allowsResting = Bool(TRUE)
    /\ body[1].velocity = Vec(Zero3)
    /\ body[1].angularVelocity = Vec(Zero4)
    /\ calls.applied = 0


\* C12: the force and torque accumulators of every body are empty at the end
\* of every step, whether or not clearAllForces was called, and the velocity
\* change a step of duration dt makes on a Dynamic body of mass m is the one
\* of the non-impulse forces F1 ... Fn applied during that step and still
\* pending, (F1 + ... + Fn)/m * dt, and of nothing applied during an earlier
\* step (stated as m * v' = m * v + (F1 + ... + Fn) * dt).
C12_ForceActsOnItsStepOnly ==
  [][last'.op = "step" =>
       /\ \A i \in BodyIds : /\ sim'[i].netForce = Zero3
                              /\ sim'[i].netTorque = Zero4
       /\ (Dynamic1 /\ calls.others = 0) =>
            /\ IsVec(body'[1].velocity)
            /\ VScale(body'[1].velocity.v, body[1].mass.v)
                 = VAdd(VScale(body[1].velocity.v, body[1].mass.v),
                        VScale(calls.force, last'.dt))]_vars

\* C13: a resting body is active (isResting false) as soon as a force, an
\* impulse or a torque has been applied to it, or resetTransform has been
\* called after its node was moved away from the simulated position: in the
\* state the call returns in, not at the next step boundary.
C13_WakesInTheCall ==
  [][(/\ isResting(body[1]) = Bool(TRUE)
      /\ last'.id = 1
      /\ \/ last'.op \in ApplyOps
         \/ last'.op = "resetTransform" /\ node[1] # sim[1].position)
     => isResting(body'[1]) = Bool(FALSE)]_vars


\* C14: clearAllForces() leaves velocity and angularVelocity as they were
\* before the call, also when impulse calls (impulse = true) were made
\* earlier in the same step: it removes pending forces and torques only.
C14_ClearKeepsVelocity ==
  [][(last'.op = "clearAllForces" /\ last'.id = 1) =>
       /\ body'[1].velocity = body[1].velocity
       /\ body'[1].angularVelocity = body[1].angularVelocity]_vars

\* clearAllForces has returned on a moving Dynamic body after an impulse call
\* of the same step.
C14_Witness ==
  /\ last.op = "clearAllForces"
  /\ calls.impulses > 0
  /\ Dynamic1
  /\ body[1].velocity.v # Zero3


\* C15: on a Dynamic body whose mass is zero or negative, a force, impulse or
\* torque application and a step leave velocity a vector of finite numbers
\* (no division by zero has happened and nothing was thrown), and the mass
\* the step integrates with is the positive minimum MinMass.
C15_DegenerateMassIsSafe ==
  [][(/\ body[1].type = TypeDynamic
      /\ IsNum(body[1].mass) /\ body[1].mass.v <= 0
      /\ IsVec(body[1].velocity)
      /\ last'.op \in ApplyOps \cup {"step"})
     => /\ IsVec(body'[1].velocity)
        /\ EffectiveMass(body[1].mass) = MinMass
        /\ MinMass > 0
        /\ ret' = Undefined]_vars

\* A step has integrated a moving Dynamic body of zero or negative mass on
\* which an impulse had been applied.
C15_Witness ==
  /\ last.op = "step"
  /\ last.calls.impulses > 0
  /\ body[1].type = TypeDynamic
  /\ IsNum(body[1].mass) /\ body[1].mass.v <= 0
  /\ IsVec(body[1].velocity) /\ body[1].velocity.v # Zero3
  /\ sim[1].position # Zero3


C17_StepIsAtomicAndOrderFree ==
  [][last'.op = "step" =>
       /\ \A ord \in Orders :
            LET r == Sweep(ord, Snapshot, Snapshot, last'.dt)
            IN \A i \in BodyIds : /\ body'[i] = r[i].body
                                   /\ sim'[i] = r[i].sim
                                   /\ node'[i] = r[i].node
       /\ \A i \in BodyIds :
            LET a == Advance(i, Snapshot, last'.dt)
            IN body'[i] = a.body /\ sim'[i] = a.sim /\ node'[i] = a.node]_vars

\* A step has ended in which body 2 moved away from the place it shared with
\* the resting body 1, and body 1 was woken by it in the same step.
C17_Witness ==
  /\ last.op = "step"
  /\ body[1].allowsResting = Bool(TRUE)
  /\ body[1]._isResting = Bool(FALSE)
  /\ sim[1].quiet = 1
  /\ IsVec(body[2].velocity) /\ body[2].velocity.v # Zero3
  /\ sim[2].position # sim[1].position

============================================================================
